---- MODULE Spec2Model ----
(***************************************************************************)
(* Candle: the LightingArea compositing surface (src/src/LightingArea.cpp) *)
(* and the recast bookkeeping of LightSource (LightSource.hpp).            *)
(*                                                                         *)
(* Geometry is one-dimensional: a surface is a row of pixels 0..w-1 (its   *)
(* height is 1), a transform is x |-> s*x + o with s in {1,-1}.  Colours   *)
(* are sf::Color records with 8-bit channels.  A float opacity is the      *)
(* exact fraction num/den with den a power of two; NaN is 0/0.             *)
(***************************************************************************)
EXTENDS Integers, Sequences, FiniteSets, TLC

\* ------------------------------------------------------------------ bounds
MaxPos == 1      \* positions of areas and lights range over 0..MaxPos
MaxWidth == 2    \* surfaces and texture rectangles are 1 or MaxWidth wide

\* ------------------------------------------------------------- value types
NULL == "nullptr"

Color(r, g, b, a) == [r |-> r, g |-> g, b |-> b, a |-> a]

White == Color(255, 255, 255, 255)
Black == Color(0, 0, 0, 255)
Transparent == Color(0, 0, 0, 0)
Dim == Color(10, 20, 30, 1)
Red == Color(255, 0, 0, 255)
HalfRed == Color(255, 0, 0, 128)
NoRed == Color(255, 0, 0, 0)

\* colours handed to setAreaColor
AreaColors == {White, Dim}

\* a float: the fraction n/d with d a power of two, or NaN (0/0).  With
\* d > 0 or NaN, the float is > 0.f exactly when n > 0
Opacity(n, d) == [num |-> n, den |-> d]
NaN == Opacity(0, 0)
\* a positive float whose product with any 8-bit alpha is below 1
Tiny == Opacity(1, 65536)

\* opacities of the documented range [0,1]: 0, 1/4, 1/2 and 1
Opacities == {Opacity(0, 1), Opacity(1, 4), Opacity(1, 2), Opacity(1, 1)}
\* the floats m_opacity can hold: the constructors leave it unassigned and
\* setAreaOpacity stores any float.  Beside the documented range: a tiny
\* positive value, 2, 245.75, -1 and NaN
Floats == Opacities \cup {Tiny, Opacity(2, 1), Opacity(983, 4), Opacity(0 - 1, 1), NaN}
InUnit(o) == o.den > 0 /\ 0 <= o.num /\ o.num <= o.den

\* contents of a freshly created render texture (never written by create)
Garbage == {Transparent, Black}

IntRect(l, t, w, h) == [left |-> l, top |-> t, width |-> w, height |-> h]
Widths == {1, MaxWidth}
Rects == {IntRect(l, 0, w, 1) : l \in {0, 1}, w \in Widths}
Sizes == {<<w, 1>> : w \in Widths}

\* the one base texture of the model and its texels, left to right
Textures == {"tex"}
Texel(t, x) == IF x = 0 THEN Red ELSE IF x = 1 THEN Black ELSE HalfRed

\* ---------------------------------------------------------- sf::Transform
Transform(s, o) == [s |-> s, o |-> o]
Identity == Transform(1, 0)
Translation(p) == Transform(1, p)
\* a * b : the transform that applies b first, then a
Combine(a, b) == Transform(a.s * b.s, a.s * b.o + a.o)
\* for s in {1,-1}: x = s*(y - o)
Inverse(a) == Transform(a.s, 0 - a.s * a.o)
TransformPoint(a, x) == a.s * x + a.o

\* ---------------------------------------------------------- sf::BlendMode
BlendMode(cs, cd, ce, asrc, adst, ae) ==
    [colorSrcFactor |-> cs, colorDstFactor |-> cd, colorEquation |-> ce,
     alphaSrcFactor |-> asrc, alphaDstFactor |-> adst, alphaEquation |-> ae]

l_substractAlpha ==
    BlendMode("Zero", "One", "Add", "Zero", "OneMinusSrcAlpha", "Add")

BlendAlpha ==
    BlendMode("SrcAlpha", "OneMinusSrcAlpha", "Add", "One", "OneMinusSrcAlpha", "Add")
BlendAdd == BlendMode("SrcAlpha", "One", "Add", "One", "One", "Add")
BlendMultiply == BlendMode("DstColor", "Zero", "Add", "DstColor", "Zero", "Add")

\* a blend factor for one channel, in 255ths
Factor(f, src, dst, ch) ==
    CASE f = "Zero" -> 0
      [] f = "One" -> 255
      [] f = "SrcAlpha" -> src.a
      [] f = "OneMinusSrcAlpha" -> 255 - src.a
      [] f = "DstColor" -> dst[ch]

Clamp8(v) == IF v > 255 THEN 255 ELSE IF v < 0 THEN 0 ELSE v

\* src*fs + dst*fd on normalised channels, rounded to 8 bits and clamped
BlendChannel(s, d, fs, fd) == Clamp8((s * fs + d * fd + 127) \div 255)

ApplyBlend(mode, src, dst) ==
    LET col(ch) == BlendChannel(src[ch], dst[ch],
                                Factor(mode.colorSrcFactor, src, dst, ch),
                                Factor(mode.colorDstFactor, src, dst, ch))
    IN  [r |-> col("r"), g |-> col("g"), b |-> col("b"),
         a |-> BlendChannel(src.a, dst.a,
                            Factor(mode.alphaSrcFactor, src, dst, "a"),
                            Factor(mode.alphaDstFactor, src, dst, "a"))]

\* sf::RenderStates
RenderStates(bm, tr, tx) == [blendMode |-> bm, transform |-> tr, texture |-> tx]
RenderStatesDefault == RenderStates(BlendAlpha, Identity, NULL)

\* ------------------------------------------------------- sf::RenderTexture
\* create(w, h): a new surface whose pixels hold whatever the driver left
RenderTextureCreate(size, garbage) ==
    [size |-> size,
     pixels |-> [x \in 0..(size[1] - 1) |-> garbage],
     displayed |-> FALSE]

RenderTextureClear(rt, c) ==
    [rt EXCEPT !.pixels = [x \in DOMAIN rt.pixels |-> c], !.displayed = FALSE]

\* draw of a primitive of colour src over the pixels in covered
RenderTextureFill(rt, covered, src, bm) ==
    [rt EXCEPT !.pixels = [x \in DOMAIN rt.pixels |->
                              IF x \in covered THEN ApplyBlend(bm, src, rt.pixels[x])
                              ELSE rt.pixels[x]],
               !.displayed = FALSE]

RenderTextureDisplay(rt) == [rt EXCEPT !.displayed = TRUE]

\* ------------------------------------------------------- sf::VertexArray
Vertex(p, c, t) == [position |-> p, color |-> c, texCoords |-> t]
\* sf::VertexArray(sf::Quads, 4): four default vertices
NewQuad == [i \in 0..3 |-> Vertex(<<0, 0>>, White, <<0, 0>>)]
\* the pixels of a surface a quad covers under a transform
QuadCover(quad, tr, rt) ==
    LET x0 == TransformPoint(tr, quad[0].position[1])
        x1 == TransformPoint(tr, quad[1].position[1])
        lo == IF x0 < x1 THEN x0 ELSE x1
        hi == IF x0 < x1 THEN x1 ELSE x0
    IN  {x \in DOMAIN rt.pixels : lo <= x /\ x < hi}

\* ------------------------------------------------------------ LightSource
\* a light handed to LightingArea::draw: where it stands and its vertex colour
Light(p, c) == [position |-> p, color |-> c]
Lights == {Light(p, c) : p \in 0..MaxPos, c \in {Red, NoRed}}

\* RadialLight::draw(target, states): the polygon, one pixel wide around the
\* light, drawn through the states it is given composed with its own transform
LightDraw(rt, light, states) ==
    LET tr == Combine(states.transform, Translation(light.position))
    IN  RenderTextureFill(rt, {x \in DOMAIN rt.pixels : x = TransformPoint(tr, 0)},
                          light.color, states.blendMode)

VARIABLES
    m_mode, m_color, m_opacity, m_baseTexture,
    m_baseTextureQuad, m_areaQuad, m_baseTextureRect,
    m_renderTexture,
    area_position,         \* sf::Transformable state of the area
    target,                \* the draw the area last issued to a render target, if any
    phase,                 \* where the frame protocol of section 4.4 stands
    light,                 \* sf::Transformable state of a LightSource
    m_transformOfLastCast, m_shouldRecast

areaVars == <<m_mode, m_color, m_opacity, m_baseTexture, m_baseTextureQuad,
              m_areaQuad, m_baseTextureRect, m_renderTexture, area_position,
              target, phase>>
lightVars == <<light, m_transformOfLastCast, m_shouldRecast>>
vars == <<areaVars, lightVars>>


\* ------------------------------------------------------------ LightingArea
\* drawing a vertex array: untextured it is filled with the vertex colour,
\* textured each pixel takes the texel its interpolated texCoords select
RenderTextureDraw(rt, quad, states) ==
    LET p0 == quad[0].position[1]
        p1 == quad[1].position[1]
        u0 == quad[0].texCoords[1]
        u1 == quad[1].texCoords[1]
        src(x) == IF states.texture = NULL THEN quad[0].color
                  ELSE Texel(states.texture,
                             u0 + ((2 * (x - p0) + 1) * (u1 - u0)) \div (2 * (p1 - p0)))
        covered == QuadCover(quad, states.transform, rt)
    IN  [rt EXCEPT !.pixels = [x \in DOMAIN rt.pixels |->
                                  IF x \in covered
                                  THEN ApplyBlend(states.blendMode, src(x), rt.pixels[x])
                                  ELSE rt.pixels[x]],
                   !.displayed = FALSE]

\* the assignments initializeRenderTexture(size) makes to the two quads
QuadPositions(quad, size) ==
    [quad EXCEPT ![0].position = <<0, 0>>,
                 ![1].position = <<size[1], 0>>,
                 ![2].position = <<size[1], size[2]>>,
                 ![3].position = <<0, size[2]>>]
QuadTexCoords(quad, size) ==
    [quad EXCEPT ![0].texCoords = <<0, 0>>,
                 ![1].texCoords = <<size[1], 0>>,
                 ![2].texCoords = <<size[1], size[2]>>,
                 ![3].texCoords = <<0, size[2]>>]

\* the assignments setTextureRect(rect) makes to m_baseTextureQuad
RectTexCoords(quad, rect) ==
    [quad EXCEPT ![0].texCoords = <<rect.left, rect.top>>,
                 ![1].texCoords = <<rect.left + rect.width, rect.top>>,
                 ![2].texCoords = <<rect.left + rect.width, rect.top + rect.height>>,
                 ![3].texCoords = <<rect.left, rect.top + rect.height>>]

\* Transformable::getTransform() of the area
getTransform == Translation(area_position)

getAreaColor == m_color

\* the conversion of a float to an integer truncates toward zero
Trunc(n, d) == IF n >= 0 THEN n \div d ELSE 0 - ((0 - n) \div d)

\* the float n/d converted to sf::Uint8.  The conversion is defined when the
\* truncated value fits 0..255.  Otherwise the behaviour is undefined and a
\* build either converts through a 32-bit integer and keeps its low byte
\* ("wrap"; NaN gives 0x80000000, low byte 0) or saturates ("saturate")
Conversions == {"wrap", "saturate"}
ToUint8(n, d, conv) ==
    IF d = 0 THEN 0
    ELSE LET t == Trunc(n, d)
         IN  IF t \in 0..255 THEN t
             ELSE IF conv = "wrap" THEN t % 256 ELSE Clamp8(t)

\* getActualColor rounding the scaled alpha to nearest instead of truncating
getActualColorRounds(conv) ==
    [m_color EXCEPT !.a = ToUint8(2 * m_color.a * m_opacity.num + m_opacity.den,
                                  2 * m_opacity.den, conv)]

\* ret.a *= m_opacity : the alpha times the float, converted back to Uint8
getActualColor(conv) ==
    [m_color EXCEPT !.a = ToUint8(m_color.a * m_opacity.num, m_opacity.den, conv)]

getAreaOpacity == m_opacity

getTextureRect == m_baseTextureRect

\* -------------------------------------------------------------- LightSource
Cos(a) == CASE a = 0 -> 1 [] a = 90 -> 0 [] a = 180 -> 0 - 1 [] a = 270 -> 0
Sin(a) == CASE a = 0 -> 0 [] a = 90 -> 1 [] a = 180 -> 0 [] a = 270 -> 0 - 1

\* the matrix of a Transformable: its rotation-scale column and its translation
TransformOf(t) == <<t.scale * Cos(t.rotation), t.scale * Sin(t.rotation), t.position>>

LightGetTransform == TransformOf(light)

shouldRecast == m_shouldRecast \/ m_transformOfLastCast # LightGetTransform

\* -------------------------------------------------------------------- Init
\* neither constructor assigns m_opacity: it holds whatever its storage held
\* LightingArea(mode, position, size)
Ctor1(mode, position, size, garbage, opacity) ==
    /\ m_color = White
    /\ m_opacity = opacity
    /\ m_mode = mode
    /\ m_baseTexture = NULL
    /\ m_renderTexture = RenderTextureCreate(size, garbage)
    /\ m_baseTextureQuad = QuadPositions(NewQuad, size)
    /\ m_areaQuad = QuadTexCoords(QuadPositions(NewQuad, size), size)
    /\ m_baseTextureRect = IntRect(0, 0, 0, 0)
    /\ area_position = position

\* LightingArea(mode, texture, rect)
Ctor2(mode, t, r, garbage, opacity) ==
    LET size == <<r.width, r.height>>
    IN  /\ m_color = White
        /\ m_opacity = opacity
        /\ m_mode = mode
        /\ m_baseTexture = t
        /\ m_renderTexture = RenderTextureCreate(size, garbage)
        /\ m_baseTextureQuad = RectTexCoords(QuadPositions(NewQuad, size), r)
        /\ m_areaQuad = QuadTexCoords(QuadPositions(NewQuad, size), size)
        /\ m_baseTextureRect = IntRect(0, 0, 0, 0)
        /\ area_position = 0

InitLight ==
    /\ light = [position |-> 0, rotation |-> 0, scale |-> 1]
    /\ m_transformOfLastCast = TransformOf([position |-> 0, rotation |-> 0, scale |-> 1])
    /\ m_shouldRecast = TRUE      \* a light that was never cast has no polygon yet

Init ==
    /\ \E mode \in {"AMBIENTAL", "FOG"}, garbage \in Garbage, opacity \in Floats :
          \/ \E position \in 0..MaxPos, size \in Sizes :
                Ctor1(mode, position, size, garbage, opacity)
          \/ \E t \in Textures, r \in Rects : Ctor2(mode, t, r, garbage, opacity)
    /\ target = <<>>
    /\ phase = "Idle"
    /\ InitLight

\* ----------------------------------------------------------------- actions
\* LightingArea::clear()
clear ==
    /\ \E conv \in Conversions :
          m_renderTexture' =
             IF m_baseTexture # NULL
             THEN RenderTextureDraw(RenderTextureClear(m_renderTexture, Transparent),
                                    m_baseTextureQuad, RenderStatesDefault)
             ELSE RenderTextureClear(m_renderTexture, getActualColor(conv))
    /\ phase' = "Cleared"
    /\ UNCHANGED <<m_mode, m_color, m_opacity, m_baseTexture, m_baseTextureQuad,
                   m_areaQuad, m_baseTextureRect, area_position, target, lightVars>>

\* draw(light) without the test of the opacity
drawLightAnyOpacity(l) ==
    /\ UNCHANGED <<m_mode, m_color, m_opacity, m_baseTexture, m_baseTextureQuad,
                   m_areaQuad, m_baseTextureRect, area_position, target, lightVars>>
    /\ IF m_mode = "FOG"
       THEN m_renderTexture' = LightDraw(m_renderTexture, l, RenderStatesDefault)
       ELSE m_renderTexture' = m_renderTexture
    /\ phase' = IF phase \in {"Cleared", "Accumulating"} THEN "Accumulating" ELSE phase

\* draw(light) refusing to run outside an open frame
drawLightGuarded(l) ==
    /\ UNCHANGED <<m_mode, m_color, m_opacity, m_baseTexture, m_baseTextureQuad,
                   m_areaQuad, m_baseTextureRect, area_position, target, lightVars>>
    /\ phase \in {"Cleared", "Accumulating"}
    /\ IF m_opacity.num > 0 /\ m_mode = "FOG"
       THEN m_renderTexture' = LightDraw(m_renderTexture, l, RenderStatesDefault)
       ELSE m_renderTexture' = m_renderTexture
    /\ phase' = "Accumulating"

\* LightingArea::draw(const LightSource&)
drawLight(l) ==
    /\ UNCHANGED <<m_mode, m_color, m_opacity, m_baseTexture, m_baseTextureQuad,
                   m_areaQuad, m_baseTextureRect, area_position, target, lightVars>>
    /\ IF m_opacity.num > 0 /\ m_mode = "FOG"
       THEN LET fogrs == RenderStates(l_substractAlpha,
                                      Combine(Identity, Inverse(getTransform)), NULL)
            IN  m_renderTexture' = LightDraw(m_renderTexture, l, RenderStatesDefault)
       ELSE m_renderTexture' = m_renderTexture
    /\ phase' = IF phase \in {"Cleared", "Accumulating"} THEN "Accumulating" ELSE phase

\* LightingArea::display()
display ==
    /\ m_renderTexture' = RenderTextureDisplay(m_renderTexture)
    /\ phase' = IF phase \in {"Cleared", "Accumulating"} THEN "Finalized" ELSE phase
    /\ UNCHANGED <<m_mode, m_color, m_opacity, m_baseTexture, m_baseTextureQuad,
                   m_areaQuad, m_baseTextureRect, area_position, target, lightVars>>

\* LightingArea::setAreaColor(c)
setAreaColor(c) ==
    /\ m_color' = c
    /\ UNCHANGED <<m_mode, m_opacity, m_baseTexture, m_baseTextureQuad, m_areaQuad,
                   m_baseTextureRect, m_renderTexture, area_position, target, phase,
                   lightVars>>

\* LightingArea::setAreaOpacity(o)
setAreaOpacity(o) ==
    /\ m_opacity' = o
    /\ UNCHANGED <<m_mode, m_color, m_baseTexture, m_baseTextureQuad, m_areaQuad,
                   m_baseTextureRect, m_renderTexture, area_position, target, phase,
                   lightVars>>

\* LightingArea::setTextureRect(rect)
setTextureRect(rect) ==
    /\ m_baseTextureQuad' = RectTexCoords(m_baseTextureQuad, rect)
    /\ UNCHANGED <<m_mode, m_color, m_opacity, m_baseTexture, m_areaQuad,
                   m_baseTextureRect, m_renderTexture, area_position, target, phase,
                   lightVars>>

\* setAreaTexture re-initialising the area as a fog area
setAreaTextureResetsMode(texture, rect, garbage) ==
    LET size == <<rect.width, rect.height>>
    IN  /\ m_baseTexture' = texture
        /\ m_mode' = "FOG"
        /\ m_renderTexture' = RenderTextureCreate(size, garbage)
        /\ m_baseTextureQuad' = RectTexCoords(QuadPositions(m_baseTextureQuad, size), rect)
        /\ m_areaQuad' = QuadTexCoords(QuadPositions(m_areaQuad, size), size)
        /\ UNCHANGED <<m_color, m_opacity, m_baseTextureRect,
                       area_position, target, phase, lightVars>>

\* LightingArea::setAreaTexture(texture, rect)
setAreaTexture(texture, rect, garbage) ==
    LET size == <<rect.width, rect.height>>
    IN  /\ m_baseTexture' = texture
        /\ m_renderTexture' = RenderTextureCreate(size, garbage)
        /\ m_baseTextureQuad' = RectTexCoords(QuadPositions(m_baseTextureQuad, size), rect)
        /\ m_areaQuad' = QuadTexCoords(QuadPositions(m_areaQuad, size), size)
        /\ UNCHANGED <<m_mode, m_color, m_opacity, m_baseTextureRect,
                       area_position, target, phase, lightVars>>

\* draw(target, states) leaving the caller's blend mode alone in an ambient area
drawAreaKeepsBlend(s) ==
    LET s2 == [s EXCEPT !.transform = Combine(@, getTransform)]
        s3 == [s2 EXCEPT !.texture = "m_renderTexture"]
    IN  /\ target' = <<[passed |-> s, drawn |-> "m_areaQuad", states |-> s3]>>
        /\ UNCHANGED <<m_mode, m_color, m_opacity, m_baseTexture, m_baseTextureQuad,
                       m_areaQuad, m_baseTextureRect, m_renderTexture, area_position,
                       phase, lightVars>>

\* LightingArea::draw(sf::RenderTarget&, sf::RenderStates) const
drawArea(s) ==
    LET s1 == [s EXCEPT !.blendMode = IF m_mode = "AMBIENTAL" THEN BlendAdd ELSE @]
        s2 == [s1 EXCEPT !.transform = Combine(@, getTransform)]
        s3 == [s2 EXCEPT !.texture = "m_renderTexture"]
    IN  /\ target' = <<[passed |-> s, drawn |-> "m_areaQuad", states |-> s3]>>
        /\ UNCHANGED <<m_mode, m_color, m_opacity, m_baseTexture, m_baseTextureQuad,
                       m_areaQuad, m_baseTextureRect, m_renderTexture, area_position,
                       phase, lightVars>>

\* the render states callers hand to drawArea
CallerStates == {RenderStatesDefault,
                 RenderStates(BlendMultiply, Transform(0 - 1, 1), "tex")}

\* Transformable::setPosition of the area
areaSetPosition(p) ==
    /\ area_position' = p
    /\ UNCHANGED <<m_mode, m_color, m_opacity, m_baseTexture, m_baseTextureQuad,
                   m_areaQuad, m_baseTextureRect, m_renderTexture, target, phase,
                   lightVars>>

\* Transformable::setPosition of the light, and setRotation, setScale
lightSetPosition(p) ==
    /\ light' = [light EXCEPT !.position = p]
    /\ UNCHANGED <<areaVars, m_transformOfLastCast, m_shouldRecast>>

lightSetRotation(angle) ==
    /\ light' = [light EXCEPT !.rotation = angle % 360]
    /\ UNCHANGED <<areaVars, m_transformOfLastCast, m_shouldRecast>>

lightSetScale(f) ==
    /\ light' = [light EXCEPT !.scale = f]
    /\ UNCHANGED <<areaVars, m_transformOfLastCast, m_shouldRecast>>

\* castLight that forgets to record the transform it cast with
castLightNoRecord ==
    /\ m_shouldRecast' = FALSE
    /\ UNCHANGED <<areaVars, light, m_transformOfLastCast>>

\* LightSource::castLight(), its bookkeeping (step 8 of the cast)
castLight ==
    /\ m_transformOfLastCast' = LightGetTransform
    /\ m_shouldRecast' = FALSE
    /\ UNCHANGED <<areaVars, light>>

\* ------------------------------------------------------------ specifications
Clear == clear
DrawLight == \E l \in Lights : drawLight(l)
Display == display
SetAreaColor == \E c \in AreaColors : setAreaColor(c)
SetAreaOpacity == \E o \in Floats : setAreaOpacity(o)
SetTextureRect == \E r \in Rects : setTextureRect(r)
SetAreaTexture ==
    \E t \in Textures \cup {NULL}, r \in Rects, g \in Garbage : setAreaTexture(t, r, g)
DrawArea == \E s \in CallerStates : drawArea(s)
AreaSetPosition == \E p \in 0..MaxPos : areaSetPosition(p)

LightSetPosition == \E p \in 0..MaxPos : lightSetPosition(p)
LightSetRotation == \E a \in {0, 90, 180, 360} : lightSetRotation(a)
LightSetScale == \E f \in {1, 2} : lightSetScale(f)
CastLight == castLight

\* the area's own interface: the frame protocol and the setters
Next ==
    \/ Clear
    \/ DrawLight
    \/ Display
    \/ SetAreaColor
    \/ SetAreaOpacity
    \/ SetTextureRect
    \/ SetAreaTexture

Spec == Init /\ [][Next]_vars

\* an area composited frame after frame and drawn into a scene.  drawArea is
\* const and writes only the target, which no operation of the area reads
NextScene ==
    \/ Clear
    \/ DrawLight
    \/ Display
    \/ DrawArea
    \/ AreaSetPosition

SpecScene == Init /\ [][NextScene]_vars

\* one light source moved, turned, scaled and cast
NextLight ==
    \/ LightSetPosition
    \/ LightSetRotation
    \/ LightSetScale
    \/ CastLight

SpecLight == Init /\ [][NextLight]_vars

\* ------------------------------------------------------------------ claims
areaFields == <<m_mode, m_color, m_opacity, m_baseTexture, m_baseTextureQuad,
                m_areaQuad, m_baseTextureRect, area_position>>
InFrame == phase \in {"Cleared", "Accumulating"}
Pixels == m_renderTexture.pixels

\* a step of draw(light), of clear() and of display(); none of them touches a
\* field of the area, which is tested first
DrawLightStep(l) == (UNCHANGED areaFields) /\ drawLight(l)
ClearStep == (UNCHANGED areaFields) /\ clear
DisplayStep == (UNCHANGED areaFields) /\ display

\* C1: in a FOG area with opacity > 0, draw(light) after clear() draws the light with the
\* alpha-subtracting blend mode through the inverse of the area's transform:
\* lit pixels keep their colour and lose the light's alpha, the others keep
\* their value.
C1_FogDrawSubtractsAlpha ==
    [][\A l \in Lights :
          (InFrame /\ DrawLightStep(l) /\ m_mode = "FOG" /\ m_opacity.num > 0)
          => m_renderTexture'.pixels =
                LightDraw(m_renderTexture, l,
                          RenderStates(l_substractAlpha, Inverse(getTransform), NULL)).pixels]_vars

\* C2: in an AMBIENT area draw(light) after clear() draws the light onto the
\* surface with additive blending, so no channel decreases and the lit pixels
\* gain the light's colour.
C2_AmbientDrawAdds ==
    [][\A l \in Lights :
          (InFrame /\ DrawLightStep(l) /\ m_mode = "AMBIENTAL")
          => m_renderTexture'.pixels =
                LightDraw(m_renderTexture, l,
                          RenderStates(BlendAdd, Identity, NULL)).pixels]_vars

\* C3 as stated: a draw(light) or display() outside an open frame (before
\* clear(), after display()) is rejected and leaves the surface's pixels alone.
C3_ProtocolGuarded ==
    [][(~InFrame /\ ((\E l \in Lights : DrawLightStep(l)) \/ DisplayStep))
          => m_renderTexture'.pixels = m_renderTexture.pixels]_vars

\* C3 amended: the protocol is not guarded.  clear(), draw(light) and
\* display() are accepted in every state and nothing is rejected; outside an
\* open frame draw(light) does what it does inside one (in a FOG area with
\* opacity > 0 it draws the light onto the surface) and display() finalises
\* the surface.
C3_ProtocolNotGuarded ==
    /\ [](ENABLED clear /\ ENABLED display /\ \A l \in Lights : ENABLED drawLight(l))
    /\ [][\A l \in Lights :
             (~InFrame /\ m_mode = "FOG" /\ m_opacity.num > 0 /\ DrawLightStep(l))
             => m_renderTexture' = LightDraw(m_renderTexture, l, RenderStatesDefault)]_vars
    /\ [][(~InFrame /\ DisplayStep) => m_renderTexture'.displayed]_vars

\* a light drawn onto the surface of an area that was never cleared
C3_Witness ==
    /\ phase = "Idle"
    /\ \E x \in DOMAIN Pixels : Pixels[x] = Red

\* what section 4.4 says the surface holds after clear()
ExpectedClear(conv) ==
    IF m_baseTexture # NULL
    THEN RenderTextureDraw(RenderTextureClear(m_renderTexture, Transparent),
                           m_baseTextureQuad,
                           RenderStates(BlendAlpha, Identity, m_baseTexture)).pixels
    ELSE [x \in DOMAIN Pixels |-> getActualColor(conv)]

\* C4: after clear() the surface depends on the configuration only: with a
\* base texture it is the texture sampled through the source rectangle over
\* transparent, without one every pixel is the effective base colour.
C4_ClearFromConfiguration ==
    [][ClearStep => \E conv \in Conversions :
                       m_renderTexture'.pixels = ExpectedClear(conv)]_vars

\* C5: for an opacity in [0,1], getActualColor() keeps r, g, b and returns
\* alpha = floor(alpha * opacity), within 0..alpha; setAreaColor and
\* setAreaOpacity change their own field only and getAreaColor() returns the
\* colour as it was set.
C5_ActualColor ==
    /\ [](InUnit(m_opacity) =>
            \A conv \in Conversions :
               /\ getActualColor(conv).r = m_color.r
               /\ getActualColor(conv).g = m_color.g
               /\ getActualColor(conv).b = m_color.b
               /\ getActualColor(conv).a \in 0..m_color.a
               /\ getActualColor(conv).a * m_opacity.den <= m_color.a * m_opacity.num
               /\ m_color.a * m_opacity.num < (getActualColor(conv).a + 1) * m_opacity.den)
    /\ [][\A c \in AreaColors :
             setAreaColor(c) => getAreaColor' = c /\ getAreaOpacity' = getAreaOpacity]_vars
    /\ [][\A o \in Floats :
             setAreaOpacity(o) => getAreaOpacity' = o /\ getAreaColor' = getAreaColor]_vars

\* a colour and an opacity that were both set, whose product is truncated
C5_Witness ==
    /\ m_color = Dim
    /\ m_opacity = Opacity(1, 2)
    /\ \A conv \in Conversions : getActualColor(conv) = Color(10, 20, 30, 0)
    /\ getAreaColor = Dim

\* C6 as stated: the area is drawn with its own surface as texture, the
\* caller's transform composed with its own, additively when AMBIENT and with
\* alpha blending when FOG.
C6_AreaDrawBlend ==
    [][\A s \in CallerStates :
          drawArea(s)
          => /\ target'[1].states.texture = "m_renderTexture"
             /\ target'[1].states.transform = Combine(s.transform, getTransform)
             /\ target'[1].states.blendMode =
                   IF m_mode = "AMBIENTAL" THEN BlendAdd ELSE BlendAlpha]_vars

\* C6 amended: the same, but a FOG area is drawn with the blend mode the
\* caller passed (alpha blending only when the caller leaves the default).
C6_AreaDrawCallerBlend ==
    [][\A s \in CallerStates :
          drawArea(s)
          => /\ target'[1].states.texture = "m_renderTexture"
             /\ target'[1].states.transform = Combine(s.transform, getTransform)
             /\ target'[1].states.blendMode =
                   IF m_mode = "AMBIENTAL" THEN BlendAdd ELSE s.blendMode]_vars

\* a fog area at position 1 drawn by a caller who asked for another blend
\* mode and a mirrored view
C6_Witness ==
    /\ target # <<>>
    /\ m_mode = "FOG"
    /\ area_position = 1
    /\ target[1].passed.blendMode = BlendMultiply
    /\ target[1].states.blendMode = BlendMultiply
    /\ target[1].states.transform = Transform(0 - 1, 0)

\* C7: no operation changes the mode the constructor set.
C7_ModeFixed == [][m_mode' = m_mode]_vars

\* an ambient area after a whole frame, its colour, texture and rectangle set
C7_Witness ==
    /\ m_mode = "AMBIENTAL"
    /\ phase = "Finalized"
    /\ m_color = Dim
    /\ m_baseTexture # NULL
    /\ m_baseTextureQuad[0].texCoords[1] = 1
    /\ m_renderTexture.size[1] = MaxWidth

\* C8 as stated: once shouldRecast() is true it stays true until castLight().
C8_StaysTrueUntilCast ==
    [][(shouldRecast /\ ~castLight) => shouldRecast']_vars

\* C8 amended: shouldRecast() is false right after castLight(); after a cast
\* it is true exactly while the light's transform differs from the one
\* recorded by that cast (giving the light its recorded transform back makes
\* it false again without a cast); only castLight() changes the record.
C8_RecastTracksTransform ==
    /\ [][castLight => ~shouldRecast']_vars
    /\ [][~castLight => m_transformOfLastCast' = m_transformOfLastCast]_vars
    /\ [][(~castLight /\ LightGetTransform' # m_transformOfLastCast) => shouldRecast']_vars
    /\ [][(~castLight /\ ~m_shouldRecast /\ LightGetTransform' = m_transformOfLastCast)
             => ~shouldRecast']_vars

\* a light that was cast where it no longer stands
C8_Witness ==
    /\ ~m_shouldRecast
    /\ m_transformOfLastCast = TransformOf([position |-> 1, rotation |-> 90, scale |-> 2])
    /\ light.position = 0
    /\ shouldRecast

\* C9 as stated: in a FOG area whose effective opacity (alpha * opacity,
\* truncated) is 0, draw(light) changes neither the surface nor any field.
\* It is stated here for a surface that still holds fog (no pixel has alpha
\* 0), where any blend mode that draws the light shows.
C9_EffectiveOpacityGuards ==
    [][\A l \in Lights :
          (/\ InFrame
           /\ m_mode = "FOG"
           /\ \A conv \in Conversions : getActualColor(conv).a = 0
           /\ \A x \in DOMAIN Pixels : Pixels[x].a > 0
           /\ DrawLightStep(l))
          => /\ m_renderTexture' = m_renderTexture
             /\ UNCHANGED areaFields]_vars

\* C9 amended: in a FOG area draw(light) draws exactly when areaOpacity > 0;
\* the colour's alpha is not consulted.  With an areaOpacity that is not > 0
\* (0, negative, NaN) the surface and every field are unchanged; with
\* areaOpacity > 0 the light is drawn and the fields are unchanged.
C9_OpacityGuards ==
    [][\A l \in Lights :
          (m_mode = "FOG" /\ drawLight(l))
          => /\ UNCHANGED areaFields
             /\ ~(m_opacity.num > 0) => m_renderTexture' = m_renderTexture
             /\ m_opacity.num > 0 => ~m_renderTexture'.displayed
             /\ m_renderTexture'.pixels # m_renderTexture.pixels => m_opacity.num > 0]_vars

\* a fog area whose effective opacity is 0 and onto which a light was drawn
C9_Witness ==
    /\ m_mode = "FOG"
    /\ m_color = Dim
    /\ m_opacity = Opacity(1, 2)
    /\ \A conv \in Conversions : getActualColor(conv).a = 0
    /\ phase = "Accumulating"
    /\ \E x \in DOMAIN Pixels : Pixels[x] = Red

\* the rectangle the texture coordinates of a quad span
RectOfQuad(quad) ==
    IntRect(quad[0].texCoords[1], quad[0].texCoords[2],
            quad[2].texCoords[1] - quad[0].texCoords[1],
            quad[2].texCoords[2] - quad[0].texCoords[2])

\* C10: getTextureRect() returns the rectangle given to the constructor, to
\* setTextureRect or to setAreaTexture, and clear, draw and display keep it.
C10_TextureRectRoundTrip ==
    /\ (m_baseTexture # NULL => getTextureRect = RectOfQuad(m_baseTextureQuad))
    /\ [][\A r \in Rects :
             (setTextureRect(r) \/ \E t \in Textures \cup {NULL}, g \in Garbage :
                                      setAreaTexture(t, r, g))
             => getTextureRect' = r]_vars
    /\ [][(ClearStep \/ DisplayStep \/ \E l \in Lights : DrawLightStep(l))
             => getTextureRect' = getTextureRect]_vars

====
